---- MODULE Spec2Model ----
(***************************************************************************)
(* A model of superset/sql_parse.py: the RLS injector (insert_rls), the    *)
(* ParsedQuery limit operations, the statement classifiers, the clause     *)
(* sanitizer and the Table value.  Token trees are the trees sqlparse      *)
(* hands to the code: a token is a record with its type tag k, its text v  *)
(* and, for a TokenList, its children sub.                                 *)
(***************************************************************************)
EXTENDS Integers, Sequences, FiniteSets, TLC

\* ------------------------------------------------------------------ bounds
\* Longest top-level token sequence handed to insert_rls.
MaxToks == 4
\* Most statements of a document handed to ParsedQuery.
MaxStmts == 2
\* Largest LIMIT literal of a document; new_limit ranges one beyond it.
MaxLimit == 2
\* Most calls of set_or_update_query_limit made on one ParsedQuery.
MaxCalls == 2
\* Most tokens (";" included) of a document handed to the classifiers.
MaxDocToks == 4
\* Longest catalog, schema or table name of a Table, in characters.
MaxPartLen == 1
\* Most Table values added to one set.
MaxTables == 2
\* Most lexer tokens of a clause handed to sanitize_clause.
MaxClauseToks == 4
\* Most accesses one thread makes to ParsedQuery.tables.
MaxAccesses == 2
\* Most tokens after the ON keyword of a join handed to insert_rls.
MaxOnToks == 4

\* ------------------------------------------------------------ token trees
Tok(k, v) == [k |-> k, v |-> v, sub |-> <<>>]
Grp(k, v, sub) == [k |-> k, v |-> v, sub |-> sub]

\* isinstance(token, TokenList)
IsTokenList(token) ==
  token.k \in {"Identifier", "Where", "Parenthesis", "Statement", "Comparison"}

SeqsUpTo(S, n) == UNION {[1..m -> S] : m \in 0..n}

InsertAt(s, p, ins) == SubSeq(s, 1, p - 1) \o ins \o SubSeq(s, p, Len(s))

\* ============================================================== variables
\* insert_rls: the token list being rewritten, the loop's place in it, the
\* scan state, the predicate carried, the candidates looked up, whether the
\* call has returned, and the token list as it was handed in.
VARIABLES tokens, pos, state, rls, log, done, tokens0
\* ParsedQuery: self._parsed, the same as constructed, the stripped text,
\* self._limit, the calls made, and the last operation with its arguments
\* and result.
VARIABLES parsed, parsed0, sql, limit, calls, lret, lop, largs

\* Classification: the statements sqlparse.parse gives for the stripped text,
\* the last classifier called and what it gave.
VARIABLES cdoc, cop, cret

\* A Python set of Table.
VARIABLES tset
\* sanitize_clause: the clause as lexed, the tokens the loop runs over, the
\* loop's place, open_parens, previous_token, and where the call stands:
\* "start", "scan", "ok" (returned, out is the text) or "raise".
VARIABLES sflat, stree, sidx, open_parens, previous_token, sres

\* ParsedQuery.tables: the document, self._tables, the number of runs of the
\* extraction, and per thread: its place in the property, the set its
\* comprehension has built, the statement it is at, what its last access
\* returned, its number of finished accesses, and whether its current access
\* began after some access had returned.  qfirst is what the first finished
\* access returned.
VARIABLES qdoc, qcache, qruns, qpc, qacc, qidx, qret, qn, qlate, qfirst

rlsVars == <<tokens, pos, state, rls, log, done, tokens0>>
limVars == <<parsed, parsed0, sql, limit, calls, lret, lop, largs>>
clsVars == <<cdoc, cop, cret>>
tabVars == <<tset>>
sanVars == <<sflat, stree, sidx, open_parens, previous_token, sres>>
\* extract_table_references: the arguments sqla_dialect and show_warning,
\* whether sqloxide is installed, the dialect the parser was invoked with
\* ("" while it was not), where the call stands ("init", "tree" when the tree
\* is read, "fallback" when ParsedQuery is), and whether a warning was logged.
VARIABLES sqla_dialect, show_warning, sqloxide, invoked, xpath, warned

extVars == <<sqla_dialect, show_warning, sqloxide, invoked, xpath, warned>>
tblVars == <<qdoc, qcache, qruns, qpc, qacc, qidx, qret, qn, qlate, qfirst>>
vars == <<rlsVars, limVars, clsVars, tabVars, sanVars, tblVars, extVars>>

\* ==================================================================== RLS

None == Tok("None", "")

\* The predicate store behind get_sqla_row_level_filters: t1 and t2 carry a
\* filter, t3 is a dataset without filters, every other name has no dataset.
RlsTables == {"t1", "t2"}
Datasets == {"t1", "t2", "t3"}

Pred(t) == Grp("Comparison", t, <<>>)
RlsOf(t) == Grp("Statement", t, <<Pred(t)>>)

\* ParsedQuery.get_table on the candidate: "" stands for an Identifier that
\* does not conform to [[catalog.]schema.]table (a subquery with an alias).
get_table(candidate) ==
  IF candidate.k = "Identifier" /\ candidate.v = "" THEN "" ELSE candidate.v

\* get_rls_for_table if a dataset without filters gave a predicate too.
RlsForEveryDataset(candidate) ==
  LET table == get_table(candidate)
  IN IF table = "" THEN None
     ELSE IF table \notin Datasets THEN None
     ELSE RlsOf(table)

get_rls_for_table(candidate) ==
  LET table == get_table(candidate)
  IN IF table = "" THEN None
     ELSE IF table \notin Datasets THEN None
     ELSE IF table \notin RlsTables THEN None
     ELSE RlsOf(table)

\* imt(token, m=[(Keyword, "FROM"), (Keyword, "JOIN")])
IsSource(token) == token.k = "Keyword" /\ token.v \in {"FROM", "JOIN"}

IsConnective(token) == token.k = "Keyword" /\ token.v \in {"AND", "OR", "NOT"}

\* WrapWhere without the parentheses: the predicate is ANDed to the last
\* operand of the body only.
WrapWhereNoParens(token, r) ==
  [token EXCEPT !.sub =
     token.sub \o <<Tok("Whitespace", " "), Tok("Keyword", "AND"), Tok("Whitespace", " ")>>
     \o r.sub]

\* The WHERE branch: "(" after the WHERE keyword, ") AND <rls tokens>" at the end.
WrapWhere(token, r) ==
  [token EXCEPT !.sub =
     InsertAt(token.sub, 2, <<Tok("Whitespace", " "), Tok("Punctuation", "(")>>)
     \o <<Tok("Punctuation", ")"), Tok("Whitespace", " "),
          Tok("Keyword", "AND"), Tok("Whitespace", " ")>>
     \o r.sub]

SynthWhere(r) ==
  Grp("Where", "", <<Tok("Keyword", "WHERE"), Tok("Whitespace", " "), r>>)

\* The sibling scan of the ON branch; i is the 1-based place the scan starts.
\* Gives the 1-based place before which ")" is spliced.
OnClosePlace(toks, i) ==
  LET stops == {q \in i..Len(toks) :
                  \/ toks[q].k = "Keyword" /\ ~IsConnective(toks[q])
                  \/ toks[q].k = "Where"}
  IN IF stops = {} THEN Len(toks) + 1
     ELSE CHOOSE q \in stops : \A q2 \in stops : q <= q2

SpliceOn(toks, p, r) ==
  LET opened == InsertAt(toks, p + 1,
                  <<Tok("Whitespace", " "), r, Tok("Whitespace", " "),
                    Tok("Keyword", "AND"), Tok("Whitespace", " "),
                    Tok("Punctuation", "(")>>)
  IN InsertAt(opened, OnClosePlace(opened, p + 8),
              <<Tok("Whitespace", " "), Tok("Punctuation", ")"),
                Tok("Whitespace", " ")>>)

RlsStart(toks) ==
  [toks |-> toks, pos |-> 1, state |-> "SCANNING", rls |-> None, log |-> <<>>]

RECURSIVE RlsRun(_)

\* One iteration of the for loop of insert_rls, on the token at st.pos.
RlsStep(st) ==
  LET raw == st.toks[st.pos]
      child == RlsRun(RlsStart(raw.sub))
      token == IF IsTokenList(raw) THEN [raw EXCEPT !.sub = child.toks] ELSE raw
      log1 == IF IsTokenList(raw) THEN st.log \o child.log ELSE st.log
      adv == [st EXCEPT !.toks[st.pos] = token, !.pos = st.pos + 1, !.log = log1]
  IN IF IsSource(token)
       THEN [adv EXCEPT !.state = "SEEN_SOURCE"]
     ELSE IF st.state = "SEEN_SOURCE" /\ (token.k = "Identifier" \/ token.k = "Keyword")
       THEN LET r == get_rls_for_table(token)
            IN [adv EXCEPT !.rls = r,
                           !.log = Append(log1, token.v),
                           !.state = IF r # None THEN "FOUND_TABLE" ELSE st.state]
     ELSE IF st.state = "FOUND_TABLE" /\ token.k = "Where"
       THEN [adv EXCEPT !.toks[st.pos] = WrapWhere(token, st.rls),
                        !.state = "SCANNING"]
     ELSE IF st.state = "FOUND_TABLE" /\ token.k = "Keyword" /\ token.v = "ON"
       THEN [adv EXCEPT !.toks = SpliceOn(adv.toks, st.pos, st.rls),
                        !.state = "SCANNING"]
     ELSE IF st.state = "FOUND_TABLE" /\ token.k # "Whitespace"
       THEN [adv EXCEPT !.toks = InsertAt(adv.toks, st.pos,
                                   <<Tok("Whitespace", " "), SynthWhere(st.rls),
                                     Tok("Whitespace", " ")>>),
                        !.state = "SCANNING"]
     ELSE IF st.state = "SEEN_SOURCE" /\ token.k # "Whitespace"
       THEN [adv EXCEPT !.state = "SCANNING"]
     ELSE adv

\* After the loop: a table found at the end of the statement gets a WHERE.
RlsFinish(st) ==
  IF st.state = "FOUND_TABLE"
    THEN [st EXCEPT !.toks = st.toks \o <<Tok("Whitespace", " "), SynthWhere(st.rls)>>]
    ELSE st

RlsRun(st) ==
  IF st.pos > Len(st.toks) THEN RlsFinish(st) ELSE RlsRun(RlsStep(st))

insert_rls(token_list) == RlsRun(RlsStart(token_list)).toks

\* The statements handed to insert_rls.
SubqueryParen ==
  Grp("Parenthesis", "", <<Tok("Punctuation", "("), Tok("Keyword", "FROM"),
                           Tok("Whitespace", " "), Grp("Identifier", "t1", <<>>),
                           Tok("Punctuation", ")")>>)

\* A subquery over t3, the dataset without filters.
SubqueryParenNoRls ==
  Grp("Parenthesis", "", <<Tok("Punctuation", "("), Tok("Keyword", "FROM"),
                           Tok("Whitespace", " "), Grp("Identifier", "t3", <<>>),
                           Tok("Punctuation", ")")>>)

RlsAlphabet ==
  { Tok("Keyword", "FROM"), Tok("Keyword", "JOIN"), Tok("Keyword", "ON"),
    Tok("Keyword", "AND"), Tok("Keyword", "ORDER BY"),
    Tok("Whitespace", " "), Tok("Other", "x"),
    Grp("Identifier", "t1", <<>>), Grp("Identifier", "t2", <<>>),
    Grp("Identifier", "t3", <<>>),
    Grp("Where", "", <<Tok("Keyword", "WHERE"), Tok("Whitespace", " "), SubqueryParenNoRls>>),
    Grp("Where", "", <<Tok("Keyword", "WHERE"), Tok("Whitespace", " "), Pred("t1")>>),
    Grp("Where", "", <<Tok("Keyword", "WHERE"), Tok("Whitespace", " "), SubqueryParen>>),
    SubqueryParen }

RlsIdle ==
  /\ tokens = <<>> /\ tokens0 = <<>> /\ pos = 1 /\ state = "SCANNING"
  /\ rls = None /\ log = <<>> /\ done = TRUE

\* self._limit = None
NoLimit == -1

\* No call of the limit operations has returned yet.
NoResult == [kind |-> "none", text |-> <<>>, exc |-> ""]

LimitIdle ==
  /\ parsed = <<>> /\ parsed0 = <<>> /\ sql = <<>> /\ limit = NoLimit /\ calls = 0
  /\ lret = NoResult /\ lop = "init"
  /\ largs = [n |-> 0, force |-> FALSE, forced |-> FALSE]

ClsIdle == cdoc = <<>> /\ cop = "init" /\ cret = "none"

TabIdle == tset = {}

SanIdle ==
  /\ sflat = <<>> /\ stree = <<>> /\ sidx = 1 /\ open_parens = 0
  /\ previous_token = None /\ sres = [kind |-> "idle", out |-> <<>>, msg |-> ""]

Threads == {1, 2}

TblIdle ==
  /\ qdoc = [error |-> FALSE, statements |-> <<>>] /\ qcache = {} /\ qruns = 0
  /\ qpc = [t \in Threads |-> "idle"] /\ qacc = [t \in Threads |-> {}]
  /\ qidx = [t \in Threads |-> 1] /\ qret = [t \in Threads |-> {}]
  /\ qn = [t \in Threads |-> 0] /\ qlate = [t \in Threads |-> FALSE]
  /\ qfirst = [has |-> FALSE, set |-> {}]

ExtIdle ==
  /\ sqla_dialect = "" /\ show_warning = TRUE /\ sqloxide = FALSE
  /\ invoked = "" /\ xpath = "init" /\ warned = FALSE

RlsInit ==
  /\ ExtIdle /\ LimitIdle /\ ClsIdle /\ TabIdle /\ SanIdle /\ TblIdle
  /\ tokens \in SeqsUpTo(RlsAlphabet, MaxToks)
  /\ tokens0 = tokens
  /\ pos = 1
  /\ state = "SCANNING"
  /\ rls = None
  /\ log = <<>>
  /\ done = FALSE

RlsCur == [toks |-> tokens, pos |-> pos, state |-> state, rls |-> rls, log |-> log]

InsertRlsStep ==
  /\ ~done
  /\ pos <= Len(tokens)
  /\ LET st == RlsStep(RlsCur)
     IN /\ tokens' = st.toks
        /\ pos' = st.pos
        /\ state' = st.state
        /\ rls' = st.rls
        /\ log' = st.log
  /\ UNCHANGED <<done, tokens0, limVars, clsVars, tabVars, sanVars, tblVars, extVars>>

InsertRlsReturn ==
  /\ ~done
  /\ pos > Len(tokens)
  /\ tokens' = RlsFinish(RlsCur).toks
  /\ done' = TRUE
  /\ UNCHANGED <<pos, state, rls, log, tokens0, limVars, clsVars, tabVars, sanVars, tblVars, extVars>>

RlsNext == InsertRlsStep \/ InsertRlsReturn

\* Joins "JOIN <table> ON <tokens>": what follows ON, which the lexer always
\* starts with whitespace.
OnAlphabet ==
  { Tok("Whitespace", " "), Tok("Other", "x"), Tok("Keyword", "AND"),
    Tok("Keyword", "IS"), Tok("Keyword", "ORDER BY"), Tok("Keyword", "JOIN"),
    Grp("Where", "", <<Tok("Keyword", "WHERE"), Tok("Whitespace", " "), Tok("Other", "x")>>) }

OnTails ==
  {<<>>} \cup {<<Tok("Whitespace", " ")>> \o r : r \in SeqsUpTo(OnAlphabet, MaxOnToks - 1)}

RlsOnInit ==
  /\ ExtIdle /\ LimitIdle /\ ClsIdle /\ TabIdle /\ SanIdle /\ TblIdle
  /\ \E t \in Datasets, tail \in OnTails :
       tokens = <<Tok("Keyword", "JOIN"), Grp("Identifier", t, <<>>),
                  Tok("Keyword", "ON")>> \o tail
  /\ tokens0 = tokens
  /\ pos = 1
  /\ state = "SCANNING"
  /\ rls = None
  /\ log = <<>>
  /\ done = FALSE

SpecRlsOn == RlsOnInit /\ [][RlsNext]_vars

SpecRls == RlsInit /\ [][RlsNext]_vars

\* ------------------------------------------------------- RLS: properties
RECURSIVE PredCount(_, _)
\* How many times the predicate of table t occurs in a token tree.
PredCount(toks, t) ==
  IF toks = <<>> THEN 0
  ELSE (IF Head(toks) = Pred(t) THEN 1 ELSE 0)
       + PredCount(Head(toks).sub, t) + PredCount(Tail(toks), t)

\* The places of a token list that hold a candidate table after FROM/JOIN.
SourcePlaces(toks) ==
  {i \in 1..Len(toks) :
     /\ toks[i].k = "Identifier"
     /\ \E j \in 1..(i - 1) :
          /\ IsSource(toks[j])
          /\ \A m \in (j + 1)..(i - 1) : toks[m].k = "Whitespace"}

RECURSIVE SourceCount(_, _)
\* How many sources of a token tree, at any level, name table t.
SourceCount(toks, t) ==
  Cardinality({i \in SourcePlaces(toks) : toks[i].v = t})
  + (IF toks = <<>> THEN 0
     ELSE LET SubCount[i \in 0..Len(toks)] ==
                IF i = 0 THEN 0 ELSE SubCount[i - 1] + SourceCount(toks[i].sub, t)
          IN SubCount[Len(toks)])

\* C1: when insert_rls has returned, every source after FROM/JOIN whose
\* lookup gives a predicate has that predicate in the rewritten statement:
\* each such source added one occurrence of its table's predicate.
C1_EverySourceGetsPredicate ==
  done => \A t \in RlsTables :
            PredCount(tokens, t) >= PredCount(tokens0, t) + SourceCount(tokens0, t)

RECURSIVE HasSourceKeyword(_)
HasSourceKeyword(toks) ==
  /\ toks # <<>>
  /\ \/ IsSource(Head(toks))
     \/ HasSourceKeyword(Head(toks).sub)
     \/ HasSourceKeyword(Tail(toks))

AtWhereWhileFound ==
  /\ ~done
  /\ pos <= Len(tokens)
  /\ state = "FOUND_TABLE"
  /\ tokens[pos].k = "Where"

\* C2: a WHERE node met in state FOUND_TABLE becomes
\* WHERE ( <body> ) AND <predicate>: one new pair of parentheses around the
\* whole body (the original body, nested subqueries rewritten), the predicate
\* appended as a top-level AND conjunct, even if the body holds it already;
\* the other tokens stay and the state becomes SCANNING.
C2_WhereWrapped ==
  [][AtWhereWhileFound =>
       LET where == tokens[pos]
           body == IF HasSourceKeyword(where.sub) THEN insert_rls(where.sub)
                   ELSE where.sub
       IN /\ tokens'[pos].k = "Where"
          /\ tokens'[pos].sub =
               <<where.sub[1], Tok("Whitespace", " "), Tok("Punctuation", "(")>>
               \o Tail(body)
               \o <<Tok("Punctuation", ")"), Tok("Whitespace", " "),
                    Tok("Keyword", "AND"), Tok("Whitespace", " ")>>
               \o rls.sub
          /\ rls.sub = <<Pred(rls.v)>>
          /\ Len(tokens') = Len(tokens)
          /\ \A i \in 1..Len(tokens) : i # pos => tokens'[i] = tokens[i]
          /\ state' = "SCANNING"]_rlsVars

\* A WHERE whose body already held the predicate of t1 has just been wrapped.
C2_Witness ==
  /\ pos > 1
  /\ pos - 1 <= Len(tokens)
  /\ state = "SCANNING"
  /\ tokens[pos - 1] =
       Grp("Where", "",
           <<Tok("Keyword", "WHERE"), Tok("Whitespace", " "), Tok("Punctuation", "("),
             Tok("Whitespace", " "), Pred("t1"),
             Tok("Punctuation", ")"), Tok("Whitespace", " "),
             Tok("Keyword", "AND"), Tok("Whitespace", " "), Pred("t1")>>)

\* The loop is at a token of the list.
AtToken == ~done /\ pos <= Len(tokens)

\* The token before place i, whitespace apart, is a FROM or JOIN keyword.
FollowsSource(toks, i) ==
  \E j \in 1..(i - 1) :
    /\ IsSource(toks[j])
    /\ \A m \in (j + 1)..(i - 1) : toks[m].k = "Whitespace"

\* The lookups the step at the token makes inside it, by recursion.
ChildLog(token) == IF IsTokenList(token) THEN RlsRun(RlsStart(token.sub)).log ELSE <<>>

\* C15: after FROM/JOIN exactly the next token that is no whitespace is the
\* candidate: once it is passed the state is FOUND_TABLE (a predicate was
\* found) or SCANNING, and a token is looked up as a table only if it
\* directly follows a FROM/JOIN keyword, so one lookup per candidate.
C15_OnlyNextTokenIsCandidate ==
  [][AtToken =>
       /\ (state = "SEEN_SOURCE" /\ tokens[pos].k # "Whitespace" /\ ~IsSource(tokens[pos]))
            => /\ state' \in {"FOUND_TABLE", "SCANNING"}
               /\ state' = "FOUND_TABLE" => rls' # None
       /\ log' # log \o ChildLog(tokens[pos]) => FollowsSource(tokens, pos)]_rlsVars

\* Keywords that are part of a condition, not the start of the next clause.
IsConditionKeyword(token) ==
  token.k = "Keyword" /\ token.v \in {"AND", "OR", "NOT", "IS", "IN", "BETWEEN", "NULL"}

\* The place after the join condition that starts at place i: the first
\* Where node or keyword that opens another clause, else the end.
ConditionEnd(toks, i) ==
  LET ends == {q \in i..Len(toks) :
                 \/ toks[q].k = "Where"
                 \/ toks[q].k = "Keyword" /\ ~IsConditionKeyword(toks[q])}
  IN IF ends = {} THEN Len(toks) + 1
     ELSE CHOOSE q \in ends : \A q2 \in ends : q <= q2

AtOnWhileFound ==
  /\ AtToken
  /\ state = "FOUND_TABLE"
  /\ tokens[pos] = Tok("Keyword", "ON")

\* C16: at an ON keyword in state FOUND_TABLE, "<predicate> AND (" goes
\* directly after ON and one ")" directly after the join condition, so that
\* the whole original condition and nothing else is inside the parentheses
\* and the predicate is ANDed with all of it; the state becomes SCANNING.
C16_OnConditionEnclosed ==
  [][AtOnWhileFound =>
       LET e == ConditionEnd(tokens, pos + 1)
       IN /\ tokens' =
               SubSeq(tokens, 1, pos)
               \o <<Tok("Whitespace", " "), rls, Tok("Whitespace", " "),
                    Tok("Keyword", "AND"), Tok("Whitespace", " "),
                    Tok("Punctuation", "(")>>
               \o SubSeq(tokens, pos + 1, e - 1)
               \o <<Tok("Whitespace", " "), Tok("Punctuation", ")"),
                    Tok("Whitespace", " ")>>
               \o SubSeq(tokens, e, Len(tokens))
          /\ state' = "SCANNING"]_rlsVars

\* Every lookup made so far, at any level, gave no predicate.
NoPredicateFound == \A i \in 1..Len(log) : log[i] \notin RlsTables

\* C17: while the lookup gives no predicate for any candidate (no dataset,
\* or a dataset without filters), the statement keeps its token sequence at
\* every level: same tokens, same order, nothing inserted.
C17_NoPredicateNoChange == NoPredicateFound => tokens = tokens0

\* FROM t3 WHERE (FROM t3): two lookups, one of them in a nested list, none
\* with a predicate, and insert_rls has returned.
C17_Witness ==
  /\ done
  /\ log = <<"t3", "t3">>
  /\ tokens0 = <<Tok("Keyword", "FROM"), Grp("Identifier", "t3", <<>>),
                 Grp("Where", "", <<Tok("Keyword", "WHERE"), Tok("Whitespace", " "),
                                    SubqueryParenNoRls>>)>>
  /\ tokens = tokens0

\* ====================================================== ParsedQuery: limit
\* Tokens of a statement as the limit code sees them.  An Integer token holds
\* its value n and py, the Python type of its .value ("str" as lexed).  An
\* IdentifierList "<off>, <n>" holds its children off and n, and voff, vn:
\* the offset and limit its own .value attribute spells.
LTok(k) == [k |-> k, n |-> 0, off |-> 0, vn |-> 0, voff |-> 0, py |-> "str"]
LInt(n) == [LTok("Integer") EXCEPT !.n = n]
LList(off, n) == [LTok("IdentifierList") EXCEPT !.n = n, !.off = off, !.vn = n, !.voff = off]

IsLimitKeyword(token) == token.k = "Keyword.LIMIT"

\* TokenList.token_next(idx): the place of the next token after idx that is
\* not whitespace, 0 for None.
token_next(statement, idx) ==
  LET later == {i \in (idx + 1)..Len(statement) : statement[i].k # "Whitespace"}
  IN IF idx = 0 \/ later = {} THEN 0
     ELSE CHOOSE i \in later : \A j \in later : i <= j

\* The place of the first LIMIT keyword of a statement, 0 for None.
limit_pos(statement) ==
  LET at == {i \in 1..Len(statement) : IsLimitKeyword(statement[i])}
  IN IF at = {} THEN 0 ELSE CHOOSE i \in at : \A j \in at : i <= j

_extract_limit_from_query(statement) ==
  LET idx == limit_pos(statement)
      nxt == token_next(statement, idx)
  IN IF idx = 0 \/ nxt = 0 THEN NoLimit
     ELSE IF statement[nxt].k \in {"Integer", "IdentifierList"} THEN statement[nxt].n
     ELSE NoLimit

RECURSIVE KeepLastFound(_, _)
\* The loop of __init__ if it kept the previous value when a statement has
\* no LIMIT.
KeepLastFound(statements, cur) ==
  IF statements = <<>> THEN cur
  ELSE LET found == _extract_limit_from_query(Head(statements))
       IN KeepLastFound(Tail(statements), IF found = NoLimit THEN cur ELSE found)

RECURSIVE LimitLoop(_, _)
\* for statement in self._parsed: self._limit = _extract_limit_from_query(statement)
LimitLoop(statements, cur) ==
  IF statements = <<>> THEN cur
  ELSE LimitLoop(Tail(statements), _extract_limit_from_query(Head(statements)))

\* Text is a sequence of atoms, one per token, as str(token.value) spells it.
Atom(w, a, b) == [w |-> w, a |-> a, b |-> b]

\* str(i.value) of a top-level token: the .value attribute.
ValueText(token) ==
  IF token.k = "Integer" THEN Atom("int", token.n, 0)
  ELSE IF token.k = "IdentifierList" THEN Atom("list", token.voff, token.vn)
  ELSE Atom(token.k, 0, 0)

\* The text of a token as lexed: its leaves (for a list, its children).
LeafText(token) ==
  IF token.k = "Integer" THEN Atom("int", token.n, 0)
  ELSE IF token.k = "IdentifierList" THEN Atom("list", token.off, token.n)
  ELSE Atom(token.k, 0, 0)

RECURSIVE Concat(_)
Concat(ss) == IF ss = <<>> THEN <<>> ELSE Head(ss) \o Concat(Tail(ss))

StatementText(statement) == [i \in 1..Len(statement) |-> LeafText(statement[i])]

\* self.sql.strip(" \t\r\n;") of the text the statements were parsed from.
SqlText(statements) == Concat([i \in 1..Len(statements) |-> StatementText(statements[i])])

AppendedLimit(n) ==
  <<Atom("Newline", 0, 0), Atom("Keyword.LIMIT", 0, 0), Atom("Whitespace", 0, 0),
    Atom("int", n, 0)>>

Text(t) == [kind |-> "text", text |-> t, exc |-> ""]
Raise(e) == [kind |-> "raise", text |-> <<>>, exc |-> e]

\* `if not self._limit`: None and 0 are both falsy.
NoLimitYet(lim) == lim = NoLimit \/ lim = 0

\* set_or_update_query_limit: the returned text (or the exception) and the
\* token trees it leaves in self._parsed.
SetOrUpdate(stmts, text, lim, new_limit, force) ==
  IF NoLimitYet(lim)
    THEN [ret |-> Text(text \o AppendedLimit(new_limit)), parsed |-> stmts]
  ELSE
    LET statement == stmts[1]
        p == token_next(statement, limit_pos(statement))
    IN IF p = 0
         THEN [ret |-> Raise("AttributeError"), parsed |-> stmts]
       ELSE
         LET lim_tok == statement[p]
             changed ==
               IF lim_tok.k = "Integer" /\ (force \/ new_limit < lim_tok.n)
                 THEN [lim_tok EXCEPT !.n = new_limit, !.py = "int"]
               ELSE IF lim_tok.k = "IdentifierList"
                 THEN [lim_tok EXCEPT !.voff = lim_tok.off, !.vn = new_limit]
               ELSE lim_tok
             after == [statement EXCEPT ![p] = changed]
         IN [ret |-> Text([i \in 1..Len(after) |-> ValueText(after[i])]),
             parsed |-> [stmts EXCEPT ![1] = after]]

\* get_statements: str(statement) joins the leaves' values, which must be str.
get_statements(stmts) ==
  IF \E i \in 1..Len(stmts) : \E j \in 1..Len(stmts[i]) : stmts[i][j].py = "int"
    THEN Raise("TypeError")
    ELSE Text(Concat([i \in 1..Len(stmts) |-> StatementText(stmts[i])]))

Limits == 0..MaxLimit
NewLimits == 0..(MaxLimit + 1)

Select1 == <<LTok("DML")>>
LimitTails ==
  {<<>>, <<LTok("Whitespace"), LTok("Keyword.LIMIT")>>,
   <<LTok("Whitespace"), LTok("Keyword.LIMIT"), LTok("Whitespace"), LTok("Other")>>}
  \cup {<<LTok("Whitespace"), LTok("Keyword.LIMIT"), LTok("Whitespace"), LInt(n)>> :
          n \in Limits}
  \cup {<<LTok("Whitespace"), LTok("Keyword.LIMIT"), LTok("Whitespace"), LList(1, n)>> :
          n \in Limits}

LimitStatements == {Select1 \o t : t \in LimitTails}

\* A statement that is not the last ends with its ";".
Terminated(doc) ==
  [i \in 1..Len(doc) |-> IF i < Len(doc) THEN doc[i] \o <<LTok("Punctuation")>> ELSE doc[i]]

LimitInit ==
  /\ ExtIdle /\ RlsIdle /\ ClsIdle /\ TabIdle /\ SanIdle /\ TblIdle
  /\ \E doc \in SeqsUpTo(LimitStatements, MaxStmts) : parsed = Terminated(doc)
  /\ parsed0 = parsed
  /\ sql = SqlText(parsed)
  /\ limit = LimitLoop(parsed, NoLimit)
  /\ calls = 0
  /\ lret = NoResult
  /\ lop = "init"
  /\ largs = [n |-> 0, force |-> FALSE, forced |-> FALSE]

SetOrUpdateQueryLimit(new_limit, force) ==
  /\ calls < MaxCalls
  /\ LET r == SetOrUpdate(parsed, sql, limit, new_limit, force)
     IN /\ lret' = r.ret
        /\ parsed' = r.parsed
  /\ calls' = calls + 1
  /\ lop' = "set_or_update_query_limit"
  /\ largs' = [n |-> new_limit, force |-> force, forced |-> largs.forced \/ force]
  /\ UNCHANGED <<parsed0, sql, limit, rlsVars, clsVars, tabVars, sanVars, tblVars, extVars>>

GetStatements ==
  /\ lret' = get_statements(parsed)
  /\ lop' = "get_statements"
  /\ UNCHANGED <<parsed, parsed0, sql, limit, calls, largs, rlsVars, clsVars, tabVars, sanVars, tblVars, extVars>>

LimitNext ==
  \/ \E n \in NewLimits, force \in BOOLEAN : SetOrUpdateQueryLimit(n, force)
  \/ GetStatements

SpecLimit == LimitInit /\ [][LimitNext]_vars

\* ----------------------------------------------------- limit: properties
Min(a, b) == IF a < b THEN a ELSE b

\* The integer LIMIT value n a statement states: its first LIMIT keyword is
\* followed, whitespace apart, by the integer n or by a list "<off>, n".
StatesLimit(statement, n) ==
  \E i \in 1..Len(statement) :
    /\ IsLimitKeyword(statement[i])
    /\ \A j \in 1..(i - 1) : ~IsLimitKeyword(statement[j])
    /\ \E m \in (i + 1)..Len(statement) :
         /\ \A j \in (i + 1)..(m - 1) : statement[j].k = "Whitespace"
         /\ statement[m].k \in {"Integer", "IdentifierList"}
         /\ statement[m].n = n

HasIntLimit(statement) == \E n \in Limits : StatesLimit(statement, n)

\* C4 as claimed: limit is the LIMIT value of the last statement that has
\* one; a later statement without a LIMIT does not clear it, and limit is
\* None only if no statement has an integer LIMIT.
C4_LastStatementWithLimitWins ==
  /\ (limit = NoLimit) <=> (\A i \in 1..Len(parsed0) : ~HasIntLimit(parsed0[i]))
  /\ \A i \in 1..Len(parsed0) :
       (HasIntLimit(parsed0[i]) /\ \A j \in (i + 1)..Len(parsed0) : ~HasIntLimit(parsed0[j]))
         => StatesLimit(parsed0[i], limit)

\* C4 amended: limit is what the last statement of the document states: its
\* integer LIMIT value, and None when the last statement states none (or the
\* document has no statement), whatever the statements before it hold.
C4_LimitOfLastStatement ==
  /\ parsed0 = <<>> => limit = NoLimit
  /\ parsed0 # <<>> =>
       LET last == parsed0[Len(parsed0)]
       IN /\ HasIntLimit(last) => StatesLimit(last, limit)
          /\ ~HasIntLimit(last) => limit = NoLimit

\* A document whose first statement has LIMIT 1 and whose last has none:
\* the limit was cleared.
C4_Witness ==
  /\ Len(parsed0) = 2
  /\ StatesLimit(parsed0[1], 1)
  /\ ~HasIntLimit(parsed0[2])
  /\ limit = NoLimit

\* The places of the LIMIT keywords of a text, and the value after one.
LimitClauses(text) == {i \in 1..Len(text) : text[i].w = "Keyword.LIMIT"}
LimitValueIs(text, i, n) ==
  \E m \in (i + 1)..Len(text) :
    /\ \A j \in (i + 1)..(m - 1) : text[j].w = "Whitespace"
    /\ text[m] = Atom("int", n, 0)

\* The document is one statement "SELECT ... LIMIT <L>", L a bare integer.
SingleIntLimit(L) ==
  parsed0 = <<Select1 \o <<LTok("Whitespace"), LTok("Keyword.LIMIT"),
                           LTok("Whitespace"), LInt(L)>>>>

JustSet == lop = "set_or_update_query_limit"

\* C5: on a query with the bare integer LIMIT L, a call with force=False
\* returns text whose LIMIT value is min(L, n), a forced call text whose
\* LIMIT value is n; so while no call was forced no returned LIMIT exceeds L.
C5_LimitIsMinUnlessForced ==
  \A L \in Limits :
    (JustSet /\ SingleIntLimit(L)) =>
      /\ lret.kind = "text"
      /\ \A i \in LimitClauses(lret.text) :
           /\ LimitValueIs(lret.text, i, IF largs.force THEN largs.n ELSE Min(L, largs.n))
           /\ ~largs.forced => \E n \in 0..L : LimitValueIs(lret.text, i, n)

\* C6: the result is the stripped text followed by "\nLIMIT n" exactly when
\* the query has no limit; a query with an integer LIMIT L >= 0 gets no
\* second LIMIT clause, its own clause is rewritten in place.
C6_AppendsOnlyWithoutLimit ==
  JustSet =>
    /\ (lret = Text(sql \o AppendedLimit(largs.n))) <=> (limit = NoLimit)
    /\ \A L \in Limits :
         SingleIntLimit(L) =>
           /\ lret.kind = "text"
           /\ Cardinality(LimitClauses(lret.text)) = 1
           /\ Len(lret.text) = Len(sql)
           /\ \A i \in 1..Len(sql) : lret.text[i].w = sql[i].w

\* C10: set_or_update_query_limit leaves the ParsedQuery as constructed: the
\* token trees, hence get_statements(), and limit; the text a call returns
\* is the text the same call returns on a fresh parse of the original SQL.
C10_ParsedQueryNotModified ==
  /\ parsed = parsed0
  /\ lop = "get_statements" => lret = get_statements(parsed0)
  /\ JustSet =>
       lret = SetOrUpdate(parsed0, sql, LimitLoop(parsed0, NoLimit),
                          largs.n, largs.force).ret

\* C18: for every document and every new_limit, set_or_update_query_limit
\* returns a text and does not raise: whenever limit is not None, the
\* statement it rewrites, the first, has a LIMIT keyword with a value token
\* after it.
C18_SetOrUpdateNeverRaises ==
  /\ JustSet => lret.kind = "text"
  /\ limit # NoLimit =>
       token_next(parsed0[1], limit_pos(parsed0[1])) # 0

\* ============================================ ParsedQuery: classification
\* Statement.get_type for a statement that opens with WITH: the DML keyword
\* that follows an Identifier, scanning on from place tidx.
RECURSIVE CteType(_, _)
CteType(statement, tidx) ==
  IF tidx >= Len(statement) THEN "UNKNOWN"
  ELSE LET i == tidx + 1
       IN IF statement[i].k = "Identifier"
            THEN IF i + 1 > Len(statement) THEN "UNKNOWN"
                 ELSE IF statement[i + 1].k = "Keyword.DML" THEN statement[i + 1].v
                 ELSE CteType(statement, i + 1)
            ELSE CteType(statement, i)

\* statement.get_type()
get_type(statement) ==
  IF statement[1].k \in {"Keyword.DML", "Keyword.DDL"} THEN statement[1].v
  ELSE IF statement[1].k = "Keyword.CTE" THEN CteType(statement, 1)
  ELSE "UNKNOWN"

\* any(token.ttype == DDL ...) or any(token.ttype == DML and
\* token.normalized != "SELECT" ...) over the tokens of one token list.
HasDdlOrOtherDml(toks) ==
  \E i \in 1..Len(toks) :
    \/ toks[i].k = "Keyword.DDL"
    \/ toks[i].k = "Keyword.DML" /\ toks[i].v # "SELECT"

\* get_inner_cte_expression(...) or []: the tokens of the Parenthesis of the
\* first identifier that has one.
get_inner_cte_expression(toks) ==
  LET ids == {i \in 1..Len(toks) :
                /\ toks[i].k = "Identifier"
                /\ \E j \in 1..Len(toks[i].sub) : toks[i].sub[j].k = "Parenthesis"}
  IN IF ids = {} THEN <<>>
     ELSE LET id == toks[CHOOSE i \in ids : \A i2 \in ids : i <= i2]
              ps == {j \in 1..Len(id.sub) : id.sub[j].k = "Parenthesis"}
          IN id.sub[CHOOSE j \in ps : \A j2 \in ps : j <= j2].sub

\* The tests of is_select on one statement.  oxide is what sqloxide does
\* with the text: "absent" (not installed), "ValueError" (cannot parse),
\* "select" or "other" (the answer of _check_cte_is_select).
StatementIsSelect(statement, oxide) ==
  IF /\ statement[1].k = "Keyword.CTE"
     /\ \/ oxide = "other"
        \/ HasDdlOrOtherDml(get_inner_cte_expression(statement))
    THEN FALSE
  ELSE IF get_type(statement) = "SELECT" THEN TRUE
  ELSE IF get_type(statement) # "UNKNOWN" THEN FALSE
  ELSE IF HasDdlOrOtherDml(statement) THEN FALSE
  ELSE IF statement[1].k = "Keyword" THEN FALSE
  ELSE \E i \in 1..Len(statement) :
         statement[i].k = "Keyword.DML" /\ statement[i].v = "SELECT"

Py(b) == IF b THEN "True" ELSE "False"

is_select(doc, oxide) ==
  Py(\A i \in 1..Len(doc) : StatementIsSelect(doc[i], oxide))

\* parsed[-1].get_type() == "SELECT"
is_valid_ctas(doc) ==
  IF doc = <<>> THEN "IndexError" ELSE Py(get_type(doc[Len(doc)]) = "SELECT")

is_valid_cvas(doc) == Py(Len(doc) = 1 /\ get_type(doc[1]) = "SELECT")

\* self._parsed[0].get_type() == "UNKNOWN"
is_unknown(doc) ==
  IF doc = <<>> THEN "IndexError" ELSE Py(get_type(doc[1]) = "UNKNOWN")

Semi == Tok("Punctuation", ";")

\* self.sql.strip(" \t\r\n;") on the token level: no ";" at either end.
RECURSIVE StripSemis(_)
StripSemis(flat) ==
  IF flat = <<>> THEN flat
  ELSE IF Head(flat) = Semi THEN StripSemis(Tail(flat))
  ELSE IF flat[Len(flat)] = Semi THEN StripSemis(SubSeq(flat, 1, Len(flat) - 1))
  ELSE flat

\* sqlparse.parse: a statement ends with its ";".
RECURSIVE SplitStatements(_, _)
SplitStatements(flat, cur) ==
  IF flat = <<>> THEN (IF cur = <<>> THEN <<>> ELSE <<cur>>)
  ELSE IF Head(flat) = Semi
    THEN <<Append(cur, Semi)>> \o SplitStatements(Tail(flat), <<>>)
  ELSE SplitStatements(Tail(flat), Append(cur, Head(flat)))

ClsAlphabet ==
  { Tok("Keyword.DML", "SELECT"), Tok("Keyword.DML", "INSERT"),
    Tok("Keyword.DDL", "DROP"), Tok("Keyword.CTE", "WITH"),
    Tok("Keyword", "EXPLAIN"),
    Grp("Parenthesis", "", <<Tok("Keyword.DDL", "DROP")>>),
    Grp("Identifier", "", <<Grp("Parenthesis", "", <<Tok("Keyword.DML", "SELECT")>>)>>),
    Grp("Identifier", "", <<Grp("Parenthesis", "", <<Tok("Keyword.DML", "INSERT")>>)>>),
    Semi }

ClsInit ==
  /\ ExtIdle /\ RlsIdle /\ LimitIdle /\ TabIdle /\ SanIdle /\ TblIdle
  /\ \E flat \in SeqsUpTo(ClsAlphabet, MaxDocToks) :
       cdoc = SplitStatements(StripSemis(flat), <<>>)
  /\ cop = "init"
  /\ cret = "none"

IsSelect(oxide) ==
  /\ cret' = is_select(cdoc, oxide)
  /\ cop' = "is_select"
  /\ UNCHANGED <<cdoc, rlsVars, limVars, tabVars, sanVars, tblVars, extVars>>

IsValidCtas ==
  /\ cret' = is_valid_ctas(cdoc)
  /\ cop' = "is_valid_ctas"
  /\ UNCHANGED <<cdoc, rlsVars, limVars, tabVars, sanVars, tblVars, extVars>>

IsValidCvas ==
  /\ cret' = is_valid_cvas(cdoc)
  /\ cop' = "is_valid_cvas"
  /\ UNCHANGED <<cdoc, rlsVars, limVars, tabVars, sanVars, tblVars, extVars>>

IsUnknown ==
  /\ cret' = is_unknown(cdoc)
  /\ cop' = "is_unknown"
  /\ UNCHANGED <<cdoc, rlsVars, limVars, tabVars, sanVars, tblVars, extVars>>

ClsNext ==
  \/ \E oxide \in {"absent", "ValueError", "select", "other"} : IsSelect(oxide)
  \/ IsValidCtas
  \/ IsValidCvas
  \/ IsUnknown

SpecCls == ClsInit /\ [][ClsNext]_vars

\* -------------------------------------------- classification: properties
RECURSIVE AllTokens(_)
\* Every token of a token tree, at any depth.
AllTokens(toks) ==
  IF toks = <<>> THEN {}
  ELSE {Head(toks)} \cup AllTokens(Head(toks).sub) \cup AllTokens(Tail(toks))

\* What the claim asks of one statement.
StatementPasses(statement) ==
  \/ get_type(statement) = "SELECT"
  \/ /\ get_type(statement) = "UNKNOWN"
     /\ \A t \in AllTokens(statement) : t.k # "Keyword.DDL"
     /\ \A t \in AllTokens(statement) : t.k = "Keyword.DML" => t.v = "SELECT"
     /\ statement[1].k # "Keyword"
     /\ \E t \in AllTokens(statement) : t.k = "Keyword.DML" /\ t.v = "SELECT"

\* C7: is_select gives True only if every statement passes, wherever it
\* stands: its type is SELECT, or it is UNKNOWN and holds no DDL token, no
\* DML token but SELECT, does not open with a bare keyword and holds a SELECT.
C7_TrueOnlyIfEveryStatementPasses ==
  (cop = "is_select" /\ cret = "True") =>
    \A i \in 1..Len(cdoc) : StatementPasses(cdoc[i])

\* C8: the classifiers give a boolean and never raise, also on a document
\* of zero statements.
C8_ClassifiersNeverRaise ==
  cop \in {"is_select", "is_valid_ctas", "is_valid_cvas", "is_unknown"} =>
    cret \in {"True", "False"}

\* ================================================================== Table
\* A name is a sequence of characters; an Optional[str] is a name or None.
Chars == {"a", "."}
Names == SeqsUpTo(Chars, MaxPartLen)
Some(name) == [some |-> TRUE, s |-> name]
NoName == [some |-> FALSE, s |-> <<>>]
Optionals == {Some(name) : name \in Names} \cup {NoName}

Tables == [table : {Some(name) : name \in Names}, schema : Optionals, catalog : Optionals]

\* urllib.parse.quote(part, safe="").replace(".", "%2E")
RECURSIVE QuotePart(_)
QuotePart(name) ==
  IF name = <<>> THEN <<>>
  ELSE (IF Head(name) = "." THEN <<"%", "2", "E">> ELSE <<Head(name)>>)
       \o QuotePart(Tail(name))

\* ".".join(parts)
RECURSIVE JoinDots(_)
JoinDots(parts) ==
  IF parts = <<>> THEN <<>>
  ELSE IF Len(parts) = 1 THEN parts[1]
  ELSE parts[1] \o <<".">> \o JoinDots(Tail(parts))

\* `if part`: None and "" are falsy.
Truthy(part) == part.some /\ part.s # <<>>

\* Table.__str__
TableStr(t) ==
  LET parts == SelectSeq(<<t.catalog, t.schema, t.table>>, Truthy)
  IN JoinDots([i \in 1..Len(parts) |-> QuotePart(parts[i].s)])

\* Table.__eq__
TableEq(x, y) == TableStr(x) = TableStr(y)

\* The __hash__ the frozen dataclass generates: the hash of the field tuple.
TableHash(t) == <<t.table, t.schema, t.catalog>>

\* set.add: an element of the same hash that compares equal is kept.
SetAdd(set, t) ==
  IF \E e \in set : TableHash(e) = TableHash(t) /\ TableEq(e, t) THEN set
  ELSE set \cup {t}

TabInit ==
  /\ ExtIdle /\ RlsIdle /\ LimitIdle /\ ClsIdle /\ SanIdle /\ TblIdle
  /\ tset = {}

AddTable(t) ==
  /\ Cardinality(tset) < MaxTables
  /\ tset' = SetAdd(tset, t)
  /\ UNCHANGED <<rlsVars, limVars, clsVars, sanVars, tblVars, extVars>>

TabNext == \E t \in Tables : AddTable(t)

SpecTab == TabInit /\ [][TabNext]_vars

\* C9: Tables that compare equal have the same hash, so a set of Table holds
\* no two equal elements, also when they differ only in "" against None.
C9_EqualTablesHashEqual ==
  \A x \in tset, y \in tset :
    /\ TableEq(x, y) => TableHash(x) = TableHash(y)
    /\ x # y => ~TableEq(x, y)

\* ======================================================== sanitize_clause
LP == Tok("Punctuation", "(")
RP == Tok("Punctuation", ")")

\* token.ttype in Comment
IsComment(token) == token.k \in {"Comment.Single", "Comment.Multiline"}

\* token.value[-1] == "\n"
EndsInNewline(token) == token.v = "-- c\n"

\* group_comments: a comment that a token other than a comment follows
\* becomes a sql.Comment group (ttype None); a trailing comment stays a token.
GroupComments(flat) ==
  [i \in 1..Len(flat) |->
     IF /\ IsComment(flat[i])
        /\ \E j \in (i + 1)..Len(flat) : ~IsComment(flat[j])
       THEN Grp("CommentGroup", "<comment>", <<flat[i]>>)
       ELSE flat[i]]

\* group_parenthesis (_group_matching): frames is the stack of token lists
\* open so far, the innermost last; each but the first starts with its "(".
RECURSIVE GroupParens(_, _)
GroupParens(flat, frames) ==
  LET n == Len(frames)
  IN IF flat = <<>>
       THEN \* the "(" left open stay tokens of the enclosing list
            IF n = 1 THEN frames[1]
            ELSE GroupParens(flat, [SubSeq(frames, 1, n - 1) EXCEPT
                                      ![n - 1] = frames[n - 1] \o frames[n]])
     ELSE IF Head(flat) = LP
       THEN GroupParens(Tail(flat), Append(frames, <<LP>>))
     ELSE IF Head(flat) = RP /\ n > 1
       THEN GroupParens(Tail(flat),
              [SubSeq(frames, 1, n - 1) EXCEPT
                 ![n - 1] = Append(frames[n - 1],
                                   Grp("Parenthesis", "<group>", Append(frames[n], RP)))])
     ELSE GroupParens(Tail(flat), [frames EXCEPT ![n] = Append(frames[n], Head(flat))])

\* group_where: the tokens from a WHERE keyword to the end of the list (to
\* the ")" inside a parenthesis) become a Where group.
RECURSIVE GroupWhere(_)
GroupWhere(toks) ==
  LET inner == [i \in 1..Len(toks) |->
                  IF toks[i].k = "Parenthesis"
                    THEN [toks[i] EXCEPT !.sub =
                            <<LP>> \o GroupWhere(SubSeq(toks[i].sub, 2, Len(toks[i].sub) - 1))
                            \o <<RP>>]
                    ELSE toks[i]]
      ws == {i \in 1..Len(inner) : inner[i].k = "Keyword" /\ inner[i].v = "WHERE"}
  IN IF ws = {} THEN inner
     ELSE LET w == CHOOSE i \in ws : \A j \in ws : i <= j
          IN Append(SubSeq(inner, 1, w - 1),
                    Grp("Where", "<group>", SubSeq(inner, w, Len(inner))))

\* The statement splitter of sqlparse: "(" and ")" change the split level, a
\* ";" at level <= 0 ends the statement, and the line comments that follow
\* the ";" still belong to it.
RECURSIVE SplitClause(_, _, _, _)
SplitClause(flat, cur, level, consume_ws) ==
  IF flat = <<>> THEN (IF cur = <<>> THEN <<>> ELSE <<cur>>)
  ELSE LET tok == Head(flat)
       IN IF consume_ws /\ tok.k # "Comment.Single"
            THEN <<cur>> \o SplitClause(flat, <<>>, 0, FALSE)
          ELSE LET lvl == level + (IF tok = LP THEN 1 ELSE IF tok = RP THEN -1 ELSE 0)
               IN SplitClause(Tail(flat), Append(cur, tok), lvl,
                              consume_ws \/ (lvl <= 0 /\ tok = Semi))

\* sqlparse.parse(clause): the statements, each grouped.
ParseClause(flat) ==
  LET stmts == SplitClause(flat, <<>>, 0, FALSE)
  IN [i \in 1..Len(stmts) |-> GroupWhere(GroupParens(GroupComments(stmts[i]), <<<<>>>>))]

Raised(msg) == [kind |-> "raise", out |-> <<>>, msg |-> msg]

\* A line comment without its line break: the lexer gives it only as the
\* last token of a text.
OpenLineComment == Tok("Comment.Single", "-- c")

ClauseAlphabet ==
  { LP, RP, Semi, Tok("Operator", "*"), Tok("Operator", "/"),
    OpenLineComment, Tok("Comment.Single", "-- c\n"),
    Tok("Comment.Multiline", "/* c */"),
    Tok("Keyword", "WHERE"), Tok("Other", "x") }

\* The token sequences the lexer can give.
Lexed(flat) == \A i \in 1..(Len(flat) - 1) : flat[i] # OpenLineComment

SanInit ==
  /\ ExtIdle /\ RlsIdle /\ LimitIdle /\ ClsIdle /\ TabIdle /\ TblIdle
  /\ sflat \in {flat \in SeqsUpTo(ClauseAlphabet, MaxClauseToks) : Lexed(flat)}
  /\ stree = <<>>
  /\ sidx = 1
  /\ open_parens = 0
  /\ previous_token = None
  /\ sres = [kind |-> "start", out |-> <<>>, msg |-> ""]

\* The test of the number of statements if it let two statements pass.
NotOneNorTwoStatements(statements) == Len(statements) \notin {1, 2}

\* len(statements) != 1
NotOneStatement(statements) == Len(statements) # 1

\* statements = sqlparse.parse(clause); the test of their number.
SanitizeParse ==
  /\ sres.kind = "start"
  /\ LET statements == ParseClause(sflat)
     IN IF NotOneStatement(statements)
          THEN /\ sres' = Raised("Clause contains multiple statements")
               /\ UNCHANGED stree
          ELSE /\ sres' = [sres EXCEPT !.kind = "scan"]
               /\ stree' = statements[1]
  /\ UNCHANGED <<sflat, sidx, open_parens, previous_token>>
  /\ UNCHANGED <<rlsVars, limVars, clsVars, tabVars, tblVars, extVars>>

\* One iteration of `for token in statements[0]`.
SanitizeStep ==
  /\ sres.kind = "scan"
  /\ sidx <= Len(stree)
  /\ LET token == stree[sidx]
         has_prev == previous_token # None
         depth == IF token.v = "(" THEN open_parens + 1
                  ELSE IF token.v = ")" THEN open_parens - 1
                  ELSE open_parens
     IN IF token.v = "/" /\ has_prev /\ previous_token.v = "*"
          THEN /\ sres' = Raised("Closing unopened multiline comment")
               /\ UNCHANGED <<sidx, open_parens, previous_token>>
        ELSE IF token.v = "*" /\ has_prev /\ previous_token.v = "/"
          THEN /\ sres' = Raised("Unclosed multiline comment")
               /\ UNCHANGED <<sidx, open_parens, previous_token>>
        ELSE IF depth < 0
          THEN /\ sres' = Raised("Closing unclosed parenthesis in filter clause")
               /\ open_parens' = depth
               /\ UNCHANGED <<sidx, previous_token>>
        ELSE /\ open_parens' = depth
             /\ previous_token' = token
             /\ sidx' = sidx + 1
             /\ UNCHANGED sres
  /\ UNCHANGED <<sflat, stree>>
  /\ UNCHANGED <<rlsVars, limVars, clsVars, tabVars, tblVars, extVars>>

\* After the loop: the test of open_parens, the line break after a trailing
\* comment, the return.
SanitizeReturn ==
  /\ sres.kind = "scan"
  /\ sidx > Len(stree)
  /\ IF open_parens > 0
       THEN sres' = Raised("Unclosed parenthesis in filter clause")
       ELSE sres' = [kind |-> "ok", msg |-> "",
                     out |-> IF /\ previous_token # None
                                /\ IsComment(previous_token)
                                /\ ~EndsInNewline(previous_token)
                               THEN Append(sflat, Tok("Newline", "\n"))
                               ELSE sflat]
  /\ UNCHANGED <<sflat, stree, sidx, open_parens, previous_token>>
  /\ UNCHANGED <<rlsVars, limVars, clsVars, tabVars, tblVars, extVars>>

SanNext == SanitizeParse \/ SanitizeStep \/ SanitizeReturn

SpecSan == SanInit /\ [][SanNext]_vars

\* ------------------------------------------- sanitize_clause: properties
\* The parenthesis depth after each prefix of the lexed clause.
RECURSIVE DepthAfter(_, _)
DepthAfter(flat, m) ==
  IF m = 0 THEN 0
  ELSE DepthAfter(flat, m - 1)
       + (IF flat[m] = LP THEN 1 ELSE IF flat[m] = RP THEN -1 ELSE 0)

Balanced(flat) ==
  /\ \A m \in 0..Len(flat) : DepthAfter(flat, m) >= 0
  /\ DepthAfter(flat, Len(flat)) = 0

\* C3: a clause sanitize_clause accepts has balanced parentheses: over its
\* tokens from left to right the depth never goes negative and ends at zero,
\* wherever in the token tree a parenthesis sits.
C3_AcceptedClauseIsBalanced ==
  sres.kind = "ok" => Balanced(sflat)

RaisedMultiple == sres = Raised("Clause contains multiple statements")

\* The call has passed the test of the number of statements.
ParseDone == sres.kind \in {"scan", "ok", "raise"}

\* What an error leaves: nothing returned, the clause as it was handed in.
NothingReturned == sres.kind = "raise" => sres.out = <<>>

\* C13 as claimed: the multiple-statements error is raised exactly when the
\* clause parses into more than one statement, before any token is scanned,
\* and an error returns no text.
C13_RaisedExactlyOnSeveralStatements ==
  /\ ParseDone => (RaisedMultiple <=> Len(ParseClause(sflat)) > 1)
  /\ RaisedMultiple => (sidx = 1 /\ open_parens = 0 /\ previous_token = None)
  /\ NothingReturned

\* C13 amended: the multiple-statements error is raised exactly when the
\* number of statements is not one (none, or more than one), before any
\* token is scanned, and an error returns no text.
C13_RaisedExactlyUnlessOneStatement ==
  /\ ParseDone => (RaisedMultiple <=> Len(ParseClause(sflat)) # 1)
  /\ RaisedMultiple => (sidx = 1 /\ open_parens = 0 /\ previous_token = None)
  /\ NothingReturned

\* A clause of two statements, "x;x", was refused.
C13_Witness ==
  /\ sflat = <<Tok("Other", "x"), Semi, Tok("Other", "x")>>
  /\ RaisedMultiple

\* C14: on success the text returned is the clause, or the clause and one
\* line break; the line break is there exactly when the last token of the
\* clause is a comment that does not end in a line break, so the text
\* returned never ends in an open line comment.
C14_LineBreakAfterTrailingComment ==
  sres.kind = "ok" =>
    LET ends_in_comment ==
          /\ sflat # <<>>
          /\ IsComment(sflat[Len(sflat)])
          /\ ~EndsInNewline(sflat[Len(sflat)])
    IN /\ sres.out \in {sflat, Append(sflat, Tok("Newline", "\n"))}
       /\ (sres.out # sflat) <=> ends_in_comment
       /\ sres.out # <<>> => sres.out[Len(sres.out)] # OpenLineComment

\* ===================================================== ParsedQuery.tables
\* A document as the table extraction sees it: whether sqlglot's parse of
\* the text raises ParseError, and per statement the names of its sources
\* that are tables and no CTE.
SourceNames == {<<"a">>, <<".">>}

QueryDocs ==
  [error : {FALSE}, statements : SeqsUpTo(SUBSET SourceNames, MaxStmts)]
  \cup {[error |-> TRUE, statements |-> <<>>]}

\* Table(source.name, source.db if source.db != "" else None, ...) of a
\* source that names no schema and no catalog.
TableOf(name) == [table |-> Some(name), schema |-> NoName, catalog |-> NoName]

\* _extract_tables_from_statement
_extract_tables_from_statement(sources) == {TableOf(name) : name \in sources}

\* The comprehension of _extract_tables_from_sql if it kept the tables of
\* the statement at hand only.
KeepStatementTables(acc, found) == found

\* One statement's turn in the set comprehension of _extract_tables_from_sql.
CollectTables(acc, found) == acc \cup found

\* _extract_tables_from_sql as a whole: set() on ParseError, else the tables
\* of all statements.
_extract_tables_from_sql(doc) ==
  IF doc.error THEN {}
  ELSE UNION {_extract_tables_from_statement(doc.statements[i]) :
                i \in 1..Len(doc.statements)}

TblInit ==
  /\ ExtIdle /\ RlsIdle /\ LimitIdle /\ ClsIdle /\ TabIdle /\ SanIdle
  /\ qdoc \in QueryDocs
  /\ qcache = {}
  /\ qruns = 0
  /\ qpc = [t \in Threads |-> "idle"]
  /\ qacc = [t \in Threads |-> {}]
  /\ qidx = [t \in Threads |-> 1]
  /\ qret = [t \in Threads |-> {}]
  /\ qn = [t \in Threads |-> 0]
  /\ qlate = [t \in Threads |-> FALSE]
  /\ qfirst = [has |-> FALSE, set |-> {}]

TblOthers == <<rlsVars, limVars, clsVars, tabVars, sanVars, extVars>>

\* `if not self._tables`: an empty set is falsy.
TablesCheck(t) ==
  /\ qpc[t] = "idle"
  /\ qn[t] < MaxAccesses
  /\ qlate' = [qlate EXCEPT ![t] = qfirst.has]
  /\ qpc' = [qpc EXCEPT ![t] = IF qcache = {} THEN "parse" ELSE "return"]
  /\ UNCHANGED <<qdoc, qcache, qruns, qacc, qidx, qret, qn, qfirst, TblOthers>>

\* _extract_tables_from_sql: parse(self.stripped(), dialect=...), set() on
\* ParseError.
TablesParse(t) ==
  /\ qpc[t] = "parse"
  /\ qruns' = qruns + 1
  /\ qacc' = [qacc EXCEPT ![t] = {}]
  /\ qidx' = [qidx EXCEPT ![t] = 1]
  /\ qpc' = [qpc EXCEPT ![t] = IF qdoc.error THEN "store" ELSE "collect"]
  /\ UNCHANGED <<qdoc, qcache, qret, qn, qlate, qfirst, TblOthers>>

\* The set comprehension, one statement at a time; the set is the thread's own.
TablesCollect(t) ==
  /\ qpc[t] = "collect"
  /\ IF qidx[t] > Len(qdoc.statements)
       THEN /\ qpc' = [qpc EXCEPT ![t] = "store"]
            /\ UNCHANGED <<qacc, qidx>>
       ELSE /\ qacc' = [qacc EXCEPT ![t] =
                          CollectTables(qacc[t],
                            _extract_tables_from_statement(qdoc.statements[qidx[t]]))]
            /\ qidx' = [qidx EXCEPT ![t] = qidx[t] + 1]
            /\ UNCHANGED qpc
  /\ UNCHANGED <<qdoc, qcache, qruns, qret, qn, qlate, qfirst, TblOthers>>

\* self._tables = <the set built>
TablesStore(t) ==
  /\ qpc[t] = "store"
  /\ qcache' = qacc[t]
  /\ qpc' = [qpc EXCEPT ![t] = "return"]
  /\ UNCHANGED <<qdoc, qruns, qacc, qidx, qret, qn, qlate, qfirst, TblOthers>>

\* return self._tables
TablesReturn(t) ==
  /\ qpc[t] = "return"
  /\ qret' = [qret EXCEPT ![t] = qcache]
  /\ qn' = [qn EXCEPT ![t] = qn[t] + 1]
  /\ qfirst' = IF qfirst.has THEN qfirst ELSE [has |-> TRUE, set |-> qcache]
  /\ qpc' = [qpc EXCEPT ![t] = "idle"]
  /\ UNCHANGED <<qdoc, qcache, qruns, qacc, qidx, qlate, TblOthers>>

TblNext ==
  \E t \in Threads :
    \/ TablesCheck(t)
    \/ TablesParse(t)
    \/ TablesCollect(t)
    \/ TablesStore(t)
    \/ TablesReturn(t)

SpecTbl == TblInit /\ [][TblNext]_vars

\* ---------------------------------------------------- tables: properties
\* C11: the extraction runs on the first access only: an access that begins
\* after an access has returned does not run the extraction, and every
\* access returns a set equal to the one the first access returned.
C11_ExtractionRunsOnce ==
  /\ \A t \in Threads : qlate[t] => qpc[t] \notin {"parse", "collect", "store"}
  /\ \A t \in Threads : qn[t] > 0 => qret[t] = qfirst.set

\* C12: under every interleaving of two threads' check, compute and store
\* steps each access returns the set the extraction gives single-threaded,
\* the cache holds nothing else, and holds that set once an access returned.
C12_ConcurrentFirstAccessAgrees ==
  /\ \A t \in Threads : qn[t] > 0 => qret[t] = _extract_tables_from_sql(qdoc)
  /\ qcache \in {{}, _extract_tables_from_sql(qdoc)}
  /\ qfirst.has => qcache = _extract_tables_from_sql(qdoc)

\* Both threads ran the extraction of a document of two statements with
\* different tables, and both have returned.
C12_Witness ==
  /\ qruns = 2
  /\ \A t \in Threads : qn[t] = 1 /\ qlate[t] = FALSE /\ qpc[t] = "idle"
  /\ Len(qdoc.statements) = 2
  /\ qdoc.statements[1] = {<<"a">>}
  /\ qdoc.statements[2] = {<<".">>}
  /\ qret[1] = {TableOf(<<"a">>), TableOf(<<".">>)}

\* ================================================ extract_table_references
\* SQLOXIDE_DIALECTS, in the order of the dict.
SQLOXIDE_DIALECTS ==
  << [name |-> "ansi", dialects |-> {"trino", "trinonative", "presto"}],
     [name |-> "hive", dialects |-> {"hive", "databricks"}],
     [name |-> "ms", dialects |-> {"mssql"}],
     [name |-> "mysql", dialects |-> {"mysql"}],
     [name |-> "postgres",
      dialects |-> {"cockroachdb", "hana", "netezza", "postgres", "postgresql",
                    "redshift", "vertica"}],
     [name |-> "snowflake", dialects |-> {"snowflake"}],
     [name |-> "sqlite", dialects |-> {"sqlite", "gsheets", "shillelagh"}],
     [name |-> "clickhouse", dialects |-> {"clickhouse"}] >>

\* for dialect, sqla_dialects in SQLOXIDE_DIALECTS.items():
\*     if sqla_dialect in sqla_dialects: break
\* dialect is the loop variable: each bucket visited assigns it.
RECURSIVE DialectLoop(_, _, _)
DialectLoop(buckets, dialect, sqla) ==
  IF buckets = <<>> THEN dialect
  ELSE IF sqla \in Head(buckets).dialects THEN Head(buckets).name
  ELSE DialectLoop(Tail(buckets), Head(buckets).name, sqla)

\* The identifiers handed in: those of the buckets and some of none.
SqlaDialects ==
  UNION {SQLOXIDE_DIALECTS[i].dialects : i \in 1..Len(SQLOXIDE_DIALECTS)}
  \cup {"oracle", "bigquery", "druid", ""}

ExtInit ==
  /\ RlsIdle /\ LimitIdle /\ ClsIdle /\ TabIdle /\ SanIdle /\ TblIdle
  /\ sqla_dialect \in SqlaDialects
  /\ show_warning \in BOOLEAN
  /\ sqloxide \in BOOLEAN
  /\ invoked = ""
  /\ xpath = "init"
  /\ warned = FALSE

\* extract_table_references up to the choice between the tree and the
\* fallback; outcome is what sqloxide_parse does with the text: a tree, an
\* empty tree, or an exception.
ExtractTableReferences(outcome) ==
  /\ xpath = "init"
  /\ IF sqloxide
       THEN /\ invoked' = DialectLoop(SQLOXIDE_DIALECTS, "generic", sqla_dialect)
            /\ warned' = (outcome = "raise" /\ show_warning)
            /\ xpath' = IF outcome = "tree" THEN "tree" ELSE "fallback"
       ELSE /\ invoked' = ""
            /\ warned' = FALSE
            /\ xpath' = "fallback"
  /\ UNCHANGED <<sqla_dialect, show_warning, sqloxide>>
  /\ UNCHANGED <<rlsVars, limVars, clsVars, tabVars, sanVars, tblVars>>

ExtNext == \E outcome \in {"tree", "empty", "raise"} : ExtractTableReferences(outcome)

SpecExt == ExtInit /\ [][ExtNext]_vars

\* The name of the bucket an identifier belongs to, "" when to none.
BucketOf(sqla) ==
  LET in == {i \in 1..Len(SQLOXIDE_DIALECTS) : sqla \in SQLOXIDE_DIALECTS[i].dialects}
  IN IF in = {} THEN "" ELSE SQLOXIDE_DIALECTS[CHOOSE i \in in : TRUE].name

\* C19: with the tree-based parser available, the parser is invoked with
\* 'generic' when the identifier is in no bucket of SQLOXIDE_DIALECTS, and
\* with the bucket's name when it is in one.
C19_GenericOutsideBuckets ==
  (sqloxide /\ xpath # "init") =>
    invoked = (IF BucketOf(sqla_dialect) = "" THEN "generic"
               ELSE BucketOf(sqla_dialect))

====
